---- MODULE Spec2Model ----
(***************************************************************************)
(* DRIP wardrobe: the catalogue store (db.py), the availability filter and *)
(* recommendation client (outfits.py) and the outfit-battle page           *)
(* (ui/page_style_me.py), as a state machine over the SQLite tables and    *)
(* the Streamlit session state.  Dates are day numbers: ISO date strings   *)
(* compare as the days they denote.  A behaviour is one day of use: today  *)
(* is day 0, and the days before it are negative.                          *)
(***************************************************************************)
EXTENDS Integers, Sequences, FiniteSets, Bags, TLC

VARIABLES
    wardrobe_items,   \* table wardrobe_items: id -> row (the columns the core reads)
    last_item_id,     \* AUTOINCREMENT counter of wardrobe_items (ids are never reused)
    wear_log,         \* table wear_log: bag of rows [item_id, date_worn]
    battles,          \* table battles: rows in insertion order
    outfits,          \* table outfits: rows in insertion order
    no_repeat_days,   \* user_settings["no_repeat_days"], as the integer it parses to
    session_state,    \* st.session_state: key -> value, keys present only when set
    utc_today,        \* SQLite date('now'): the current UTC day
    local_today,      \* Python date.today(): the current local day
    inputs,           \* the occasion and weather the page's widgets currently give
    generation,       \* the latest STYLE ME click: the inputs it read, how it ended
    run               \* the latest script run: handler, its locals, API call, message shown

vars == <<wardrobe_items, last_item_id, wear_log, battles, outfits, no_repeat_days,
          session_state, utc_today, local_today, inputs, generation, run>>

store == <<wardrobe_items, last_item_id, wear_log, battles, outfits, no_repeat_days>>
clock == <<utc_today, local_today>>
page == <<session_state, inputs, generation>>

----------------------------------------------------------------------------
(* Bounds of the model *)

MaxItems == 2        \* garments ever added (ids 1..MaxItems)
MaxWindow == 2       \* no-repeat windows the Settings slider is moved to: 1..MaxWindow
MaxDay == 2          \* days before today the Quick Log date picker goes back to
MaxBattles == 1      \* rows in battles
MaxHistory == 3      \* rounds in the short battle histories of the statistics
MaxManifest == 2     \* garments in a list handed to the manifest builder
MaxOutfits == 2      \* rows in outfits

ItemIds == 1..MaxItems
Windows == 1..MaxWindow

Days == (0 - MaxDay)..0

\* widget values at the time of a script run: the occasion selectbox, the weather line
Contexts == {[occasion |-> "work", weather_summary |-> "70F, Clear sky"],
             [occasion |-> "everyday", weather_summary |-> "Weather unavailable"]}

----------------------------------------------------------------------------
(* Python helpers *)

SeqToSet(s) == {s[i] : i \in DOMAIN s}

\* dict.get(key, default)
Get(d, key, default) == IF key \in DOMAIN d THEN d[key] ELSE default

\* dict.pop(key, None)
Pop(d, key) == [k \in DOMAIN d \ {key} |-> d[k]]

\* d[key] = value
Put(d, key, value) == [k \in DOMAIN d \cup {key} |-> IF k = key THEN value ELSE d[k]]

SetMax(S) == CHOOSE m \in S : \A x \in S : x <= m

RECURSIVE DescSeq(_)
DescSeq(S) == IF S = {} THEN <<>>
              ELSE LET m == SetMax(S) IN <<m>> \o DescSeq(S \ {m})

\* all sequences without repetition over the elements of S, of length 0..n
RECURSIVE Arrangements(_, _)
Arrangements(S, n) ==
    IF n = 0 THEN {<<>>}
    ELSE {<<>>} \cup UNION {{<<x>> \o t : t \in Arrangements(S \ {x}, n - 1)} : x \in S}

None == [none |-> TRUE]

----------------------------------------------------------------------------
(* db.py: the catalogue store *)

DefaultNoRepeatDays == 7

\* add_item: INSERT INTO wardrobe_items; the new row is active, its id the next AUTOINCREMENT value
add_item(items, new_id) ==
    [i \in DOMAIN items \cup {new_id} |->
        IF i = new_id THEN [id |-> new_id, active |-> 1] ELSE items[i]]

AllSeasons == <<"spring", "summer", "fall", "winter">>

\* add_item with its category, pattern, formality and seasons arguments:
\* json.dumps(seasons or ["spring", "summer", "fall", "winter"])
add_item_described(items, new_id, category, pattern, formality, seasons) ==
    [i \in DOMAIN items \cup {new_id} |->
        IF i = new_id
        THEN add_item(items, new_id)[new_id] @@
                 [category |-> category, pattern |-> pattern, formality |-> formality,
                  seasons |-> IF seasons # <<>> THEN seasons ELSE AllSeasons]
        ELSE items[i]]

\* update_item: UPDATE wardrobe_items SET <the keyword arguments> WHERE id = ?
update_item(items, item_id, kwargs) ==
    [i \in DOMAIN items |-> IF i = item_id THEN kwargs @@ items[i] ELSE items[i]]

\* get_item: SELECT * FROM wardrobe_items WHERE id = ? (archived rows included)
get_item(item_id) ==
    IF item_id \in DOMAIN wardrobe_items THEN wardrobe_items[item_id] ELSE None

\* get_all_items: ... [AND active = 1] ORDER BY created_at DESC
get_all_items(active_only) ==
    LET ids == {i \in DOMAIN wardrobe_items : active_only => wardrobe_items[i].active = 1}
        order == DescSeq(ids)
    IN  [k \in DOMAIN order |-> wardrobe_items[order[k]]]

\* update_item(conn, item_id, active=new_active)
update_item_active(items, item_id, new_active) ==
    [i \in DOMAIN items |->
        IF i = item_id THEN [items[i] EXCEPT !.active = new_active] ELSE items[i]]

\* variant: delete_item leaves the wear_log rows of the garment
delete_item_wear_kept(wl, item_id) == wl

\* delete_item: DELETE FROM wear_log WHERE item_id = ?; DELETE FROM wardrobe_items WHERE id = ?
delete_item_wear(wl, item_id) ==
    [r \in {x \in DOMAIN wl : x.item_id # item_id} |-> wl[r]]

delete_item_rows(items, item_id) ==
    [i \in DOMAIN items \ {item_id} |-> items[i]]

\* save_outfit: INSERT INTO outfits
save_outfit(rows, name, occasion, weather_summary, item_ids, reasoning) ==
    Append(rows, [name |-> name, occasion |-> occasion,
                  weather_summary |-> weather_summary,
                  item_ids |-> item_ids, reasoning |-> reasoning])

\* variant: the table has no UNIQUE(item_id, date_worn) constraint
log_wear_ok_no_unique(wl, item_id, date_worn) == item_id \in DOMAIN wardrobe_items

\* log_wear: INSERT INTO wear_log; an IntegrityError (the foreign key on item_id,
\* UNIQUE(item_id, date_worn)) is caught and reported as False
log_wear_ok(wl, item_id, date_worn) ==
    /\ item_id \in DOMAIN wardrobe_items
    /\ ~BagIn([item_id |-> item_id, date_worn |-> date_worn], wl)

log_wear(wl, item_id, date_worn) ==
    IF log_wear_ok(wl, item_id, date_worn)
    THEN wl (+) SetToBag({[item_id |-> item_id, date_worn |-> date_worn]})
    ELSE wl

\* variant: the comparison written as ">" instead of ">="
get_items_worn_recently_strict(days) ==
    {r.item_id : r \in {x \in BagToSet(wear_log) : x.date_worn > utc_today - days}}

\* variant: the date modifier written as '+<days> days'
get_items_worn_recently_ahead(days) ==
    {r.item_id : r \in {x \in BagToSet(wear_log) : x.date_worn >= utc_today + days}}

\* get_items_worn_recently: SELECT DISTINCT item_id FROM wear_log
\*                          WHERE date_worn >= date('now', '-<days> days')
get_items_worn_recently(days) ==
    {r.item_id : r \in {x \in BagToSet(wear_log) : x.date_worn >= utc_today - days}}

\* save_battle: INSERT INTO battles
save_battle(rows, outfit_a_ids, outfit_b_ids, outfit_a_name, outfit_b_name, winner, occasion, weather_summary) ==
    Append(rows, [outfit_a_ids |-> outfit_a_ids, outfit_b_ids |-> outfit_b_ids,
                  outfit_a_name |-> outfit_a_name, outfit_b_name |-> outfit_b_name,
                  winner |-> winner, occasion |-> occasion,
                  weather_summary |-> weather_summary])

\* rows get_battle_item_stats asks get_battle_history for
HistoryLimit == 1000

\* get_battle_history: SELECT * FROM battles ORDER BY created_at DESC LIMIT ?
get_battle_history(limit) ==
    LET n == Len(battles)
        m == IF limit < n THEN limit ELSE n
    IN  [k \in 1..m |-> battles[n + 1 - k]]

\* "for iid in ids: counts[iid] = counts.get(iid, 0) + 1"
RECURSIVE count_ids(_, _)
count_ids(counts, ids) ==
    IF ids = <<>> THEN counts
    ELSE LET iid == Head(ids)
         IN  count_ids((iid :> (Get(counts, iid, 0) + 1)) @@ counts, Tail(ids))

\* variant: the losing garments are counted on every pass, the winning garments only when
\* the first outfit won
stats_step_first_only(b, stats) ==
    LET winner_ids == IF b.winner = "a" THEN b.outfit_a_ids ELSE b.outfit_b_ids
        loser_ids == IF b.winner = "a" THEN b.outfit_b_ids ELSE b.outfit_a_ids
    IN  [wins |-> IF b.winner = "a" THEN count_ids(stats.wins, winner_ids)
                  ELSE stats.wins @@ [iid \in SeqToSet(winner_ids) |-> 0],
         losses |-> count_ids(stats.losses, loser_ids)]

\* one pass of the loop body of get_battle_item_stats, for the row b
stats_step(b, stats) ==
    LET winner_ids == IF b.winner = "a" THEN b.outfit_a_ids ELSE b.outfit_b_ids
        loser_ids == IF b.winner = "a" THEN b.outfit_b_ids ELSE b.outfit_a_ids
    IN  [wins |-> count_ids(stats.wins, winner_ids),
         losses |-> count_ids(stats.losses, loser_ids)]

\* the loop of get_battle_item_stats over rows[lo..hi], entered with stats: the passes
\* for the first half of the range, and once their counts are there, those for the
\* second half
RECURSIVE stats_fold(_, _, _, _)
stats_fold(rows, lo, hi, stats) ==
    IF lo > hi THEN stats
    ELSE IF lo = hi THEN stats_step(rows[lo], stats)
    ELSE LET mid == (lo + hi) \div 2
             first_half == stats_fold(rows, lo, mid, stats)
         IN  IF DOMAIN first_half = {"wins", "losses"}
             THEN stats_fold(rows, mid + 1, hi, first_half)
             ELSE first_half

\* get_battle_item_stats
get_battle_item_stats ==
    LET rows == get_battle_history(HistoryLimit)
    IN  stats_fold(rows, 1, Len(rows), [wins |-> <<>>, losses |-> <<>>])

\* A Python dict keeps its keys in the order of their first assignment.
\* the keys after "for iid in ids: counts[iid] = ...", keys being those before it
RECURSIVE insert_keys(_, _)
insert_keys(keys, ids) ==
    IF ids = <<>> THEN keys
    ELSE insert_keys(IF Head(ids) \in SeqToSet(keys) THEN keys ELSE Append(keys, Head(ids)),
                     Tail(ids))

\* the keys of wins (winning) or of losses (~winning) after the loop of
\* get_battle_item_stats over rows[lo..hi], keys being those before it
RECURSIVE keys_fold(_, _, _, _, _)
keys_fold(rows, lo, hi, keys, winning) ==
    IF lo > hi THEN keys
    ELSE IF lo = hi
         THEN LET b == rows[lo]
                  winner_ids == IF b.winner = "a" THEN b.outfit_a_ids ELSE b.outfit_b_ids
                  loser_ids == IF b.winner = "a" THEN b.outfit_b_ids ELSE b.outfit_a_ids
              IN  insert_keys(keys, IF winning THEN winner_ids ELSE loser_ids)
    ELSE LET mid == (lo + hi) \div 2
             first_half == keys_fold(rows, lo, mid, keys, winning)
         IN  IF Len(first_half) >= 0
             THEN keys_fold(rows, mid + 1, hi, first_half, winning)
             ELSE first_half

\* list(stats["wins"]) and list(stats["losses"]) of get_battle_item_stats
stats_keys(winning) ==
    LET rows == get_battle_history(HistoryLimit)
    IN  keys_fold(rows, 1, Len(rows), <<>>, winning)

----------------------------------------------------------------------------
(* outfits.py: availability filter and recommendation client *)

\* get_available_items
get_available_items(days, exclude_ids) ==
    LET all_items == get_all_items(TRUE)
        recently_worn == get_items_worn_recently(days)
    IN  SelectSeq(all_items,
                  LAMBDA item : item.id \notin recently_worn /\ item.id \notin exclude_ids)

\* Text is a sequence of characters and of longer pieces that hold no line break;
\* the line break is the piece NL.
NL == "\n"

\* sep.join(texts)
RECURSIVE Join(_, _)
Join(texts, sep) ==
    IF texts = <<>> THEN <<>>
    ELSE IF Len(texts) = 1 THEN texts[1]
    ELSE texts[1] \o sep \o Join(Tail(texts), sep)

\* text.split(sep) for a one-piece separator
RECURSIVE Split(_, _)
Split(text, sep) ==
    IF \A i \in DOMAIN text : text[i] # sep THEN <<text>>
    ELSE LET first == CHOOSE i \in DOMAIN text :
                          text[i] = sep /\ \A j \in 1..(i - 1) : text[j] # sep
         IN  <<SubSeq(text, 1, first - 1)>> \o Split(SubSeq(text, first + 1, Len(text)), sep)

\* the line of build_wardrobe_manifest for one garment
manifest_line(item) ==
    <<"ID:", ToString(item.id), " | ">> \o item.name \o <<" | ", item.category, "/">>
        \o Get(item, "subcategory", <<>>) \o <<" | ">>
        \o Join(Get(item, "colors", <<>>), <<", ">>) \o <<" | ">>
        \o Get(item, "pattern", <<"solid">>) \o <<" | ">>
        \o Get(item, "material", <<>>) \o <<" | formality:", ToString(Get(item, "formality", 3)), " | ">>
        \o Join(Get(item, "seasons", <<>>), <<",">>)

\* build_wardrobe_manifest
build_wardrobe_manifest(items) ==
    Join([k \in DOMAIN items |-> manifest_line(items[k])], <<NL>>)

(* vision.py *)

VALID_CATEGORIES == {"top", "bottom", "outerwear", "shoes", "accessory", "underwear"}
VALID_PATTERNS == {"solid", "striped", "plaid", "checkered", "floral", "graphic",
                   "abstract", "camo", "polka-dot", "herringbone", "paisley"}
VALID_SEASONS == {"spring", "summer", "fall", "winter"}

\* values of the parsed reply by their Python type
PyInt(n) == [type |-> "int", value |-> n]
PyList(elements) == [type |-> "list", value |-> elements]
PyStr == [type |-> "str"]

\* [s for s in seasons if s in VALID_SEASONS]
valid_seasons(seasons) == SelectSeq(seasons, LAMBDA season : season \in VALID_SEASONS)

\* _sanitize_result, the four validated fields
sanitize_result(result) ==
    LET category == Get(result, "category", "top")
        pattern == Get(result, "pattern", "solid")
        formality == Get(result, "formality", PyInt(3))
        seasons == Get(result, "seasons", PyList(AllSeasons))
        listed == IF seasons.type = "list" THEN seasons.value ELSE AllSeasons
    IN  [category |-> IF category \in VALID_CATEGORIES THEN category ELSE "top",
         pattern |-> IF pattern \in VALID_PATTERNS THEN pattern ELSE "solid",
         formality |-> IF formality.type = "int" /\ 1 <= formality.value /\ formality.value <= 5
                       THEN formality.value ELSE 3,
         seasons |-> IF valid_seasons(listed) # <<>> THEN valid_seasons(listed) ELSE AllSeasons]

----------------------------------------------------------------------------
\* The service's text after .strip(), split into lines.  A line is a fence delimiter
\* (it starts with three backticks), a complete JSON document, the first or the second
\* half of a JSON document written on two lines, or anything else.
FenceLine == [kind |-> "fence"]
ProseLine == [kind |-> "prose"]
JsonLine(v) == [kind |-> "json", value |-> v]
JsonHead(v) == [kind |-> "json_head", value |-> v]
JsonTail(v) == [kind |-> "json_tail", value |-> v]
JsonArray(elems) == [type |-> "array", items |-> elems]
JsonObject(obj) == [type |-> "object", fields |-> obj]

\* the fence-stripping loop of generate_outfits
RECURSIVE fence_capture(_, _, _, _)
fence_capture(lines, i, in_block, json_lines) ==
    IF i > Len(lines) THEN json_lines
    ELSE IF lines[i].kind = "fence" /\ ~in_block
         THEN fence_capture(lines, i + 1, TRUE, json_lines)
    ELSE IF lines[i].kind = "fence" /\ in_block
         THEN json_lines
    ELSE IF in_block
         THEN fence_capture(lines, i + 1, in_block, Append(json_lines, lines[i]))
    ELSE fence_capture(lines, i + 1, in_block, json_lines)

\* variant: the loop starts as if the block were already open
strip_fence_block_open(raw_text) ==
    IF Len(raw_text) > 0 /\ raw_text[1].kind = "fence"
    THEN fence_capture(raw_text, 1, TRUE, <<>>)
    ELSE raw_text

\* "if raw_text.startswith(fence)": the block between the first two fence lines
strip_fence(raw_text) ==
    IF Len(raw_text) > 0 /\ raw_text[1].kind = "fence"
    THEN fence_capture(raw_text, 1, FALSE, <<>>)
    ELSE raw_text

\* json.loads: the text must be exactly one JSON document, on one line or on two
json_valid(text) ==
    \/ Len(text) = 1 /\ text[1].kind = "json"
    \/ /\ Len(text) = 2
       /\ text[1].kind = "json_head"
       /\ text[2].kind = "json_tail"
       /\ text[1].value = text[2].value

\* variant: a reply that does not parse gives an empty list
generate_outfits_empty(reply) ==
    LET raw_text == strip_fence(reply)
    IN  IF ~json_valid(raw_text)
        THEN <<>>
        ELSE IF raw_text[1].value.type # "array"
             THEN <<raw_text[1].value.fields>>
             ELSE raw_text[1].value.items

\* generate_outfits, from the service's reply on
generate_outfits(reply) ==
    LET raw_text == strip_fence(reply)
    IN  IF ~json_valid(raw_text)
        THEN <<[error |-> "Failed to parse AI response", raw_response |-> raw_text]>>
        ELSE IF raw_text[1].value.type # "array"
             THEN <<raw_text[1].value.fields>>
             ELSE raw_text[1].value.items

\* resolve_outfit_items
RECURSIVE resolve_ids(_)
resolve_ids(item_ids) ==
    IF item_ids = <<>> THEN <<>>
    ELSE LET item == get_item(Head(item_ids))
         IN  (IF item # None THEN <<item>> ELSE <<>>) \o resolve_ids(Tail(item_ids))

\* variant: an id with no garment row empties the result
resolve_outfit_items_all_or_nothing(outfit) ==
    IF SeqToSet(Get(outfit, "item_ids", <<>>)) \subseteq DOMAIN wardrobe_items
    THEN resolve_ids(Get(outfit, "item_ids", <<>>))
    ELSE <<>>

resolve_outfit_items(outfit) == resolve_ids(Get(outfit, "item_ids", <<>>))

----------------------------------------------------------------------------
(* What the generative service may reply *)

\* two candidates: one wears the first garment added, the other the second and first
LookA == [name |-> "Look A", item_ids |-> <<1>>, reasoning |-> "why"]
LookB == [name |-> "Look B", item_ids |-> <<2, 1>>, reasoning |-> "why"]

\* JSON documents: a lone object, and arrays of zero to three objects
JsonValues ==
    {JsonObject(LookA),
     JsonArray(<<>>),
     JsonArray(<<LookA>>),
     JsonArray(<<LookA, LookB>>),
     JsonArray(<<LookA, LookB, LookA>>)}

\* reply texts: JSON, and not JSON at all
Replies ==
    {<<JsonLine(v)>> : v \in JsonValues} \cup {<<ProseLine>>}

\* reply texts with markdown fencing or on several lines: a pair between two fence
\* lines, on one line and on two; with text after the closing fence; with no closing
\* fence; a fenced text that is not JSON; an empty fenced block; a lone fence line; a
\* pair after a line of prose, unfenced and fenced; a pair on two lines; half a pair
Pair == JsonArray(<<LookA, LookB>>)
FencedReplies ==
    {<<FenceLine, JsonLine(Pair), FenceLine>>,
     <<FenceLine, JsonHead(Pair), JsonTail(Pair), FenceLine>>,
     <<FenceLine, JsonLine(Pair), FenceLine, ProseLine>>,
     <<FenceLine, JsonLine(Pair)>>,
     <<FenceLine, ProseLine, FenceLine>>,
     <<FenceLine, FenceLine>>,
     <<FenceLine>>,
     <<ProseLine, JsonLine(Pair)>>,
     <<ProseLine, FenceLine, JsonLine(Pair), FenceLine>>,
     <<JsonHead(Pair), JsonTail(Pair)>>,
     <<JsonHead(Pair)>>}

----------------------------------------------------------------------------
(* ui/page_style_me.py: the Style Me page *)

\* a script run that is not a STYLE ME click
NoRun == [handler |-> "other", api_calls |-> 0, message |-> "none",
          eligible_ids |-> {}, reply |-> <<>>]

\* no STYLE ME click yet
NoGeneration == [result |-> "none", occasion |-> "", weather_summary |-> ""]

\* render() returns before any button when the closet has no active item
PageRenders == get_all_items(TRUE) # <<>>

\* options of the lock / exclude multiselects
ItemOptions == {i \in DOMAIN wardrobe_items : wardrobe_items[i].active = 1}

\* variant: the locked garments are not added back
eligible_items_unlocked(locked_ids, excluded_ids) ==
    get_available_items(no_repeat_days, excluded_ids)

\* the eligible list handed to build_wardrobe_manifest: the filter's result with the
\* locked garments added back
eligible_items(locked_ids, excluded_ids) ==
    LET available == get_available_items(no_repeat_days, excluded_ids)
        locked_items == resolve_ids(locked_ids)
        locked_in_available == {available[k].id : k \in DOMAIN available}
    IN  available \o SelectSeq(locked_items, LAMBDA li : li.id \notin locked_in_available)

\* variant: the previous results are not cleared
cleared_session_kept == session_state

\* session state once a handler has cleared the previous results
cleared_session == Pop(Pop(session_state, "generated_outfits"), "battle_voted")

\* variant: the context keys are only set when absent (setdefault)
store_generation_setdefault(session, outfits_list) ==
    LET with_outfits == Put(session, "generated_outfits", outfits_list)
        with_weather == IF "outfit_weather_summary" \in DOMAIN with_outfits
                        THEN with_outfits
                        ELSE Put(with_outfits, "outfit_weather_summary",
                                 inputs.weather_summary)
    IN  IF "outfit_occasion" \in DOMAIN with_weather
        THEN with_weather
        ELSE Put(with_weather, "outfit_occasion", inputs.occasion)

\* the three session_state assignments that end the STYLE ME handler
store_generation(session, outfits_list) ==
    Put(Put(Put(session,
        "generated_outfits", outfits_list),
        "outfit_weather_summary", inputs.weather_summary),
        "outfit_occasion", inputs.occasion)

\* the lock and exclude selections the multiselects allow
LockSelections == Arrangements(ItemOptions, MaxItems)
ExcludeSelections == SUBSET ItemOptions

\* the ids of a list of garment rows
ListIds(items) == {items[k].id : k \in DOMAIN items}

\* the garments the eligible list can hold, over the selections the current store allows
EligibleIds ==
    {ListIds(eligible_items(locked_ids, excluded_ids)) :
        locked_ids \in LockSelections, excluded_ids \in ExcludeSelections}

\* variant: the emptiness check is missing
no_items_never(eligible_ids) == FALSE

\* "if not available": nothing is left to build a manifest from
no_items_available(eligible_ids) == eligible_ids = {}

\* what generate_outfits gave back: a parse-error result, too few candidates, or a pair
result_of(outfits_list) ==
    IF outfits_list # <<>> /\ "error" \in DOMAIN outfits_list[1] THEN "parse_error"
    ELSE IF Len(outfits_list) < 2 THEN "too_few"
    ELSE "ok"

\* variant: a reply that gives no pair is asked for once more
calls_made_retry(outfits_list) == IF result_of(outfits_list) = "ok" THEN 1 ELSE 2

\* client.messages.create calls in one generate_outfits that returned outfits_list:
\* the one call, whatever the reply parses to
calls_made(outfits_list) == 1

\* variant: a generation that gave a pair saves its first candidate at once
StyleMeOnAutosave(replies) ==
    /\ PageRenders
    /\ \E eligible_ids \in EligibleIds :
          LET locals == [handler |-> "style_me", eligible_ids |-> eligible_ids,
                         reply |-> <<>>]
              click == [occasion |-> inputs.occasion,
                        weather_summary |-> inputs.weather_summary]
          IN  IF no_items_available(eligible_ids)
              THEN /\ session_state' = cleared_session
                   /\ run' = locals @@ [api_calls |-> 0, message |-> "no_items"]
                   /\ generation' = click @@ [result |-> "no_items"]
                   /\ outfits' = outfits
              ELSE \/ /\ session_state' = cleared_session
                      /\ run' = locals @@ [api_calls |-> 1, message |-> "exception"]
                      /\ generation' = click @@ [result |-> "raised"]
                      /\ outfits' = outfits
                   \/ \E reply \in replies :
                         LET outfits_list == generate_outfits(reply)
                         IN
                         /\ session_state' =
                                store_generation(cleared_session, outfits_list)
                         /\ run' = [locals EXCEPT !.reply = reply] @@
                                       [api_calls |-> calls_made(outfits_list),
                                        message |-> "none"]
                         /\ generation' = click @@ [result |-> result_of(outfits_list)]
                         /\ outfits' =
                                IF result_of(outfits_list) = "ok" /\ Len(outfits) < MaxOutfits
                                THEN save_outfit(outfits, outfits_list[1].name,
                                                 click.occasion, click.weather_summary,
                                                 outfits_list[1].item_ids,
                                                 outfits_list[1].reasoning)
                                ELSE outfits
    /\ UNCHANGED <<wardrobe_items, last_item_id, wear_log, battles, no_repeat_days,
                   clock, inputs>>

\* STYLE ME button, the service replying with one of replies
StyleMeOn(replies) ==
    /\ PageRenders
    /\ \E eligible_ids \in EligibleIds :
          LET locals == [handler |-> "style_me", eligible_ids |-> eligible_ids,
                         reply |-> <<>>]
              click == [occasion |-> inputs.occasion,
                        weather_summary |-> inputs.weather_summary]
          IN  IF no_items_available(eligible_ids)
              THEN /\ session_state' = cleared_session
                   /\ run' = locals @@ [api_calls |-> 0, message |-> "no_items"]
                   /\ generation' = click @@ [result |-> "no_items"]
              ELSE \/ \* client.messages.create raises: the handler is left at the call
                      /\ session_state' = cleared_session
                      /\ run' = locals @@ [api_calls |-> 1, message |-> "exception"]
                      /\ generation' = click @@ [result |-> "raised"]
                   \/ \E reply \in replies :
                         LET outfits_list == generate_outfits(reply)
                         IN
                         /\ session_state' =
                                store_generation(cleared_session, outfits_list)
                         /\ run' = [locals EXCEPT !.reply = reply] @@
                                       [api_calls |-> calls_made(outfits_list),
                                        message |-> "none"]
                         /\ generation' = click @@ [result |-> result_of(outfits_list)]
    /\ UNCHANGED <<store, clock, inputs>>

StyleMe == StyleMeOn(Replies)

\* STYLE ME button, the service replying with fenced or multi-line text
StyleMeFenced == StyleMeOn(FencedReplies)

\* which branch of the display section renders
Display ==
    IF ~PageRenders \/ "generated_outfits" \notin DOMAIN session_state THEN "idle"
    ELSE LET outfits_list == session_state["generated_outfits"]
         IN  IF outfits_list # <<>> /\ "error" \in DOMAIN outfits_list[1] THEN "parse_error"
             ELSE IF Len(outfits_list) < 2 THEN "too_few"
             ELSE IF "battle_voted" \in DOMAIN session_state THEN "voted"
             ELSE "battle"

\* Try Again button (both failure branches)
TryAgain ==
    /\ Display \in {"parse_error", "too_few"}
    /\ session_state' = Pop(session_state, "generated_outfits")
    /\ run' = NoRun
    /\ UNCHANGED <<store, clock, inputs, generation>>

\* the wear-logging loop of _cast_vote
RECURSIVE log_wear_each(_, _, _)
log_wear_each(wl, items, date_worn) ==
    IF items = <<>> THEN wl
    ELSE log_wear_each(log_wear(wl, Head(items).id, date_worn), Tail(items), date_worn)

\* variant: the winning outfit is recorded first, whichever side it was shown on
cast_vote_battles_winner_first(outfits_list, winner) ==
    LET outfit_a == IF winner = "a" THEN outfits_list[1] ELSE outfits_list[2]
        outfit_b == IF winner = "a" THEN outfits_list[2] ELSE outfits_list[1]
    IN  save_battle(battles,
                    Get(outfit_a, "item_ids", <<>>), Get(outfit_b, "item_ids", <<>>),
                    Get(outfit_a, "name", "Outfit A"), Get(outfit_b, "name", "Outfit B"),
                    winner,
                    Get(session_state, "outfit_occasion", ""),
                    Get(session_state, "outfit_weather_summary", None))

\* _cast_vote: the battles table after the vote
cast_vote_battles(outfits_list, winner) ==
    LET outfit_a == outfits_list[1]
        outfit_b == outfits_list[2]
    IN  save_battle(battles,
                    Get(outfit_a, "item_ids", <<>>), Get(outfit_b, "item_ids", <<>>),
                    Get(outfit_a, "name", "Outfit A"), Get(outfit_b, "name", "Outfit B"),
                    winner,
                    Get(session_state, "outfit_occasion", ""),
                    Get(session_state, "outfit_weather_summary", None))

\* variant: the garments of both outfits are logged as worn
cast_vote_wear_both(outfits_list, winner) ==
    log_wear_each(log_wear_each(wear_log, resolve_outfit_items(outfits_list[1]),
                                local_today),
                  resolve_outfit_items(outfits_list[2]), local_today)

\* _cast_vote: the wear_log table after the vote
cast_vote_wear(outfits_list, winner) ==
    LET winning == IF winner = "a" THEN outfits_list[1] ELSE outfits_list[2]
        winning_items == resolve_outfit_items(winning)
    IN  log_wear_each(wear_log, winning_items, local_today)

\* vote buttons
Vote(winner) ==
    /\ Display = "battle"
    /\ Len(battles) < MaxBattles
    /\ battles' = cast_vote_battles(session_state["generated_outfits"], winner)
    /\ wear_log' = cast_vote_wear(session_state["generated_outfits"], winner)
    /\ session_state' = Put(session_state, "battle_voted", winner)
    /\ run' = NoRun
    /\ UNCHANGED <<wardrobe_items, last_item_id, outfits, no_repeat_days, clock,
                   inputs, generation>>

\* vote buttons, when the store raises something other than IntegrityError (a locked
\* database, a full disk) after save_battle has committed: in resolve_outfit_items, or
\* in the log_wear of one of the winner's garments, the earlier ones being logged and
\* committed. log_wear catches IntegrityError only, _cast_vote catches nothing, so the
\* script run ends there and battle_voted is not set.
VoteInterrupted(winner) ==
    /\ Display = "battle"
    /\ Len(battles) < MaxBattles
    /\ battles' = cast_vote_battles(session_state["generated_outfits"], winner)
    /\ LET outfits_list == session_state["generated_outfits"]
           winning == IF winner = "a" THEN outfits_list[1] ELSE outfits_list[2]
           winning_items == resolve_outfit_items(winning)
           last_try == IF winning_items = <<>> THEN 0 ELSE Len(winning_items) - 1
       IN  \E logged \in 0..last_try :
              wear_log' = log_wear_each(wear_log, SubSeq(winning_items, 1, logged),
                                        local_today)
    /\ run' = [NoRun EXCEPT !.handler = "vote", !.message = "exception"]
    /\ UNCHANGED <<wardrobe_items, last_item_id, outfits, no_repeat_days, clock, page>>

\* variant: the rejected pair is recorded as a battle won by the first outfit
DealAgainRecorded ==
    /\ Display = "battle"
    /\ Len(battles) < MaxBattles
    /\ battles' = cast_vote_battles(session_state["generated_outfits"], "a")
    /\ session_state' = cleared_session
    /\ run' = NoRun
    /\ UNCHANGED <<wardrobe_items, last_item_id, wear_log, outfits, no_repeat_days,
                   clock, inputs, generation>>

\* "Neither - deal me again" button
DealAgain ==
    /\ Display = "battle"
    /\ session_state' = cleared_session
    /\ run' = NoRun
    /\ UNCHANGED <<store, clock, inputs, generation>>

\* variant: the first outfit shown is saved, whichever side won
save_winner_first_shown ==
    LET winner == session_state["generated_outfits"][1]
    IN  save_outfit(outfits,
                    Get(winner, "name", ""),
                    Get(session_state, "outfit_occasion", ""),
                    Get(session_state, "outfit_weather_summary", ""),
                    Get(winner, "item_ids", <<>>),
                    Get(winner, "reasoning", ""))

\* Save Winning Outfit button: the outfits table after the save
save_winner ==
    LET vote == session_state["battle_voted"]
        winner == IF vote = "a" THEN session_state["generated_outfits"][1]
                  ELSE session_state["generated_outfits"][2]
    IN  save_outfit(outfits, Get(winner, "name", ""),
                    Get(session_state, "outfit_occasion", ""),
                    Get(session_state, "outfit_weather_summary", ""),
                    Get(winner, "item_ids", <<>>),
                    Get(winner, "reasoning", ""))

SaveWinner ==
    /\ Display = "voted"
    /\ Len(outfits) < MaxOutfits
    /\ outfits' = save_winner
    /\ run' = NoRun
    /\ UNCHANGED <<wardrobe_items, last_item_id, wear_log, battles, no_repeat_days,
                   page, clock>>

\* RUN IT BACK button
RunItBack ==
    /\ Display = "voted"
    /\ session_state' = cleared_session
    /\ run' = NoRun
    /\ UNCHANGED <<store, clock, inputs, generation>>

\* the occasion selectbox or the weather line changes
ChangeInputs ==
    /\ \E context \in Contexts \ {inputs} : inputs' = context
    /\ run' = NoRun
    /\ UNCHANGED <<store, clock, session_state, generation>>

----------------------------------------------------------------------------
(* The other pages *)

\* Add Items page: add_item
AddItem ==
    /\ last_item_id < MaxItems
    /\ last_item_id' = last_item_id + 1
    /\ wardrobe_items' = add_item(wardrobe_items, last_item_id + 1)
    /\ run' = NoRun
    /\ UNCHANGED <<wear_log, battles, outfits, no_repeat_days, page, clock>>

\* My Closet page: Archive / Restore
ArchiveItem ==
    /\ \E item_id \in DOMAIN wardrobe_items :
          LET new_active == IF wardrobe_items[item_id].active = 1 THEN 0 ELSE 1
          IN  wardrobe_items' = update_item_active(wardrobe_items, item_id, new_active)
    /\ run' = NoRun
    /\ UNCHANGED <<last_item_id, wear_log, battles, outfits, no_repeat_days,
                   page, clock>>

\* variant: the delete cascades to the battles that reference the garment
DeleteItemCascade ==
    /\ \E item_id \in DOMAIN wardrobe_items :
          /\ wear_log' = delete_item_wear(wear_log, item_id)
          /\ wardrobe_items' = delete_item_rows(wardrobe_items, item_id)
          /\ battles' = SelectSeq(battles,
                                   LAMBDA b : item_id \notin SeqToSet(b.outfit_a_ids)
                                              /\ item_id \notin SeqToSet(b.outfit_b_ids))
    /\ run' = NoRun
    /\ UNCHANGED <<last_item_id, outfits, no_repeat_days, page, clock>>

\* My Closet page: Delete
DeleteItem ==
    /\ \E item_id \in DOMAIN wardrobe_items :
          /\ wear_log' = delete_item_wear(wear_log, item_id)
          /\ wardrobe_items' = delete_item_rows(wardrobe_items, item_id)
    /\ run' = NoRun
    /\ UNCHANGED <<last_item_id, battles, outfits, no_repeat_days, page, clock>>

\* Wear Log page: Quick Log, the date picker set to one of log_dates
QuickLogOn(log_dates) ==
    /\ \E selected_ids \in Arrangements(ItemOptions, MaxItems) \ {<<>>},
          log_date \in log_dates :
          wear_log' = log_wear_each(wear_log, resolve_ids(selected_ids), log_date)
    /\ run' = NoRun
    /\ UNCHANGED <<wardrobe_items, last_item_id, battles, outfits, no_repeat_days,
                   page, clock>>

\* Quick Log with the picker left at its default, date.today()
QuickLogToday == QuickLogOn({local_today})

\* Quick Log for any day of the calendar
QuickLog == QuickLogOn(Days)

\* Settings page: Save Settings (the slider's minimum is 1)
SaveSettings ==
    /\ \E days \in Windows : no_repeat_days' = days
    /\ run' = NoRun
    /\ UNCHANGED <<wardrobe_items, last_item_id, wear_log, battles, outfits,
                   page, clock>>

\* Settings page: Clear All Data, then init_db re-seeds the defaults
ClearAllData ==
    /\ wear_log' = EmptyBag
    /\ outfits' = <<>>
    /\ battles' = <<>>
    /\ wardrobe_items' = <<>>
    /\ no_repeat_days' = DefaultNoRepeatDays
    /\ run' = NoRun
    /\ UNCHANGED <<last_item_id, page, clock>>

\* variant: of several keys with the largest value, the last one
py_max_last(keys, value) ==
    LET best == SetMax({value[keys[i]] : i \in DOMAIN keys})
    IN  keys[CHOOSE i \in DOMAIN keys :
                 /\ value[keys[i]] = best
                 /\ \A j \in DOMAIN keys : j > i => value[keys[j]] # best]

\* max(d, key=d.get) over a non-empty dict with the given keys: of several keys with the
\* largest value, the first one
py_max(keys, value) ==
    LET best == SetMax({value[keys[i]] : i \in DOMAIN keys})
    IN  keys[CHOOSE i \in DOMAIN keys :
                 /\ value[keys[i]] = best
                 /\ \A j \in DOMAIN keys : j < i => value[keys[j]] # best]

\* variant: a garment that get_item does not find is shown like any other
shown_as_found(item_id) == "item"

\* what a column shows for the chosen garment: its name and counts, or the caption
shown_as(item_id) ==
    IF get_item(item_id) # None THEN "item" ELSE "Item no longer in closet"

\* "streak_candidates[iid] = loss_count - win_count"
streak_candidates(wins, losses) ==
    [iid \in DOMAIN losses |-> losses[iid] - Get(wins, iid, 0)]

\* garments handed to the manifest builder: ids 1..MaxItems; a one-word name or a
\* name with a line break in it; the optional fields all present or all missing
ManifestGarments ==
    {[id |-> id, name |-> name, category |-> "top"] @@ optional :
        id \in ItemIds,
        name \in {<<"Shirt">>, <<"Blue", NL, "Shirt">>},
        optional \in {<<>>,
                      [subcategory |-> <<"tee">>, colors |-> <<<<"white">>, <<"blue">>>>,
                       pattern |-> <<"striped">>, material |-> <<"cotton">>,
                       formality |-> 4, seasons |-> <<<<"spring">>, <<"summer">>>>]}}

ManifestInputs == UNION {[1..n -> ManifestGarments] : n \in 0..MaxManifest}

\* STYLE ME handler up to the manifest: build_wardrobe_manifest(available)
BuildManifest ==
    /\ \E items \in ManifestInputs :
          run' = [NoRun EXCEPT !.handler = "manifest"] @@
                     [items |-> items, manifest |-> build_wardrobe_manifest(items)]
    /\ UNCHANGED <<store, clock, page>>

\* parsed replies of the vision service: each field missing, valid or invalid
VisionResults ==
    {category @@ pattern @@ formality @@ seasons :
        category \in {<<>>} \cup {[category |-> c] : c \in {"top", "shoes", "hat"}},
        pattern \in {<<>>} \cup {[pattern |-> p] : p \in {"striped", "zigzag"}},
        formality \in {<<>>} \cup {[formality |-> f] : f \in {PyInt(0), PyInt(5), PyInt(6), PyStr}},
        seasons \in {<<>>} \cup {[seasons |-> x] :
                        x \in {PyList(<<>>), PyList(<<"summer">>), PyList(<<"monsoon">>),
                               PyList(<<"monsoon", "summer">>), PyStr}}}

\* what the user picks in the forms: selectbox over sorted(VALID_...), slider 1..5,
\* multiselect over the four seasons (every chip can be removed)
CategoryChoices == {c \in VALID_CATEGORIES : c \in {"top", "shoes"}}
PatternChoices == {p \in VALID_PATTERNS : p \in {"solid", "striped"}}
FormalityChoices == {f \in 1..5 : f \in {1, 3, 5}}
SeasonChoices == {<<>>, <<"summer">>, AllSeasons}

\* Add Items page, photo identified: the sanitized result is saved at once
AddIdentified ==
    /\ last_item_id < MaxItems
    /\ last_item_id' = last_item_id + 1
    /\ \E reply \in VisionResults :
          LET result == sanitize_result(reply)
          IN  wardrobe_items' = add_item_described(wardrobe_items, last_item_id + 1,
                                    result.category, result.pattern, result.formality,
                                    result.seasons)
    /\ run' = NoRun
    /\ UNCHANGED <<wear_log, battles, outfits, no_repeat_days, page, clock>>

\* Add Items page, manual form: Save Item
AddManual ==
    /\ last_item_id < MaxItems
    /\ last_item_id' = last_item_id + 1
    /\ \E category \in CategoryChoices, pattern \in PatternChoices,
          formality \in FormalityChoices, seasons \in SeasonChoices :
          wardrobe_items' = add_item_described(wardrobe_items, last_item_id + 1,
                                category, pattern, formality,
                                IF seasons # <<>> THEN seasons ELSE AllSeasons)
    /\ run' = NoRun
    /\ UNCHANGED <<wear_log, battles, outfits, no_repeat_days, page, clock>>

\* Add Items page, edit form of a garment added in this session: Save
EditAdded ==
    /\ \E item_id \in DOMAIN wardrobe_items, category \in CategoryChoices,
          pattern \in PatternChoices, formality \in FormalityChoices,
          seasons \in SeasonChoices :
          wardrobe_items' = update_item(wardrobe_items, item_id,
                                [category |-> category, pattern |-> pattern,
                                 formality |-> formality,
                                 seasons |-> IF seasons # <<>> THEN seasons ELSE AllSeasons])
    /\ run' = NoRun
    /\ UNCHANGED <<last_item_id, wear_log, battles, outfits, no_repeat_days, page, clock>>

\* My Closet page, Details form: Save
EditInCloset ==
    /\ \E item_id \in DOMAIN wardrobe_items, category \in CategoryChoices,
          pattern \in PatternChoices, formality \in FormalityChoices,
          seasons \in SeasonChoices :
          wardrobe_items' = update_item(wardrobe_items, item_id,
                                [category |-> category, pattern |-> pattern,
                                 formality |-> formality, seasons |-> seasons])
    /\ run' = NoRun
    /\ UNCHANGED <<last_item_id, wear_log, battles, outfits, no_repeat_days, page, clock>>

\* Battle Stats expander at the bottom of the Style Me page
ViewStats ==
    /\ PageRenders
    /\ battles # <<>>
    /\ LET stats == get_battle_item_stats
           wins == stats.wins
           losses == stats.losses
           mvp_id == IF DOMAIN wins # {} THEN py_max(stats_keys(TRUE), wins) ELSE None
           streak_id == IF DOMAIN losses # {}
                        THEN py_max(stats_keys(FALSE), streak_candidates(wins, losses))
                        ELSE None
       IN  run' = [NoRun EXCEPT !.handler = "stats"] @@
                     [stats |-> stats,
                      mvp_id |-> mvp_id,
                      mvp_shown |-> IF DOMAIN wins # {} THEN shown_as(mvp_id)
                                    ELSE "No wins yet",
                      streak_id |-> streak_id,
                      streak_shown |-> IF DOMAIN losses # {} THEN shown_as(streak_id)
                                       ELSE "No losses yet"]
    /\ UNCHANGED <<store, clock, page>>

----------------------------------------------------------------------------

Init ==
    /\ wardrobe_items = <<>>
    /\ last_item_id = 0
    /\ wear_log = EmptyBag
    /\ battles = <<>>
    /\ outfits = <<>>
    /\ no_repeat_days = DefaultNoRepeatDays
    /\ session_state = <<>>
    /\ utc_today = 0
    /\ local_today = utc_today
    /\ inputs \in Contexts
    /\ generation = NoGeneration
    /\ run = NoRun

Next ==
    \/ StyleMe
    \/ TryAgain
    \/ Vote("a")
    \/ Vote("b")
    \/ DealAgain
    \/ RunItBack
    \/ AddItem
    \/ ArchiveItem
    \/ DeleteItem
    \/ QuickLogToday
    \/ SaveSettings
    \/ ClearAllData

\* The outfit battle, over a catalogue, wear log and settings that change under it
Spec == Init /\ [][Next]_vars

NextSave ==
    \/ StyleMe
    \/ Vote("a")
    \/ Vote("b")
    \/ SaveWinner
    \/ RunItBack
    \/ ChangeInputs
    \/ AddItem

\* The outfit battle with the winner saved, while the occasion and weather inputs change
SpecSave == Init /\ [][NextSave]_vars

NextHistory ==
    \/ StyleMe
    \/ Vote("a")
    \/ Vote("b")
    \/ SaveWinner
    \/ RunItBack
    \/ AddItem
    \/ ArchiveItem
    \/ DeleteItem
    \/ ClearAllData

\* The battle history, while rounds go on and the catalogue changes or is wiped
SpecHistory == Init /\ [][NextHistory]_vars

NextVoteFault ==
    \/ StyleMe
    \/ Vote("a")
    \/ Vote("b")
    \/ VoteInterrupted("a")
    \/ VoteInterrupted("b")
    \/ DealAgain
    \/ RunItBack
    \/ AddItem
    \/ DeleteItem

\* The outfit battle on a store that can fail in the middle of a vote
SpecVoteFault == Init /\ [][NextVoteFault]_vars

NextReply ==
    \/ StyleMe
    \/ StyleMeFenced
    \/ TryAgain
    \/ DealAgain
    \/ AddItem
    \/ DeleteItem

\* Generation over the replies the parser has to cope with
SpecReply == Init /\ [][NextReply]_vars

\* battle rows the vote buttons write for the pair (Look A, Look B)
StatsRows ==
    {[outfit_a_ids |-> LookA.item_ids, outfit_b_ids |-> LookB.item_ids,
      outfit_a_name |-> LookA.name, outfit_b_name |-> LookB.name,
      winner |-> winner, occasion |-> context.occasion,
      weather_summary |-> context.weather_summary] :
        winner \in {"a", "b"}, context \in Contexts}

\* n rounds on the same pair, each won by the first candidate
SameRound(n) ==
    [k \in 1..n |-> CHOOSE row \in StatsRows : row.winner = "a" /\ row.occasion = "work"]

\* the two battles of test_battle_item_stats: items 1, 2 beat 3, 4; then 1, 3 beat 5, 6
ExampleHistory ==
    save_battle(save_battle(<<>>, <<1, 2>>, <<3, 4>>, "A", "B", "a", "test", None),
                <<5, 6>>, <<1, 3>>, "C", "D", "b", "test", None)

\* one battle whose winning candidate lists the same garment twice
RepeatHistory == save_battle(<<>>, <<1, 1>>, <<2>>, "A", "B", "a", "test", None)

\* battle histories: every history of up to MaxHistory rounds, two long ones, of
\* HistoryLimit rounds and of one more, and the two above
Histories ==
    UNION {[1..n -> StatsRows] : n \in 0..MaxHistory}
        \cup {SameRound(HistoryLimit), SameRound(HistoryLimit + 1)}
        \cup {ExampleHistory, RepeatHistory}

\* some time into the use of the app: one garment in the closet, battles on record
InitStats ==
    /\ wardrobe_items = add_item(<<>>, 1)
    /\ last_item_id = 1
    /\ wear_log = EmptyBag
    /\ battles \in Histories
    /\ outfits = <<>>
    /\ no_repeat_days = DefaultNoRepeatDays
    /\ session_state = <<>>
    /\ utc_today = 0
    /\ local_today = utc_today
    /\ inputs \in Contexts
    /\ generation = NoGeneration
    /\ run = NoRun

NextStats ==
    \/ ViewStats
    \/ AddItem
    \/ DeleteItem
    \/ ClearAllData

\* The battle statistics over a battle history
SpecStats == InitStats /\ [][NextStats]_vars

\* the local calendar day beside the UTC day: the same, or one day behind or ahead,
\* by the time zone of the machine and the hour
LocalDays == {utc_today - 1, utc_today, utc_today + 1}

InitZones ==
    /\ wardrobe_items = <<>>
    /\ last_item_id = 0
    /\ wear_log = EmptyBag
    /\ battles = <<>>
    /\ outfits = <<>>
    /\ no_repeat_days = DefaultNoRepeatDays
    /\ session_state = <<>>
    /\ utc_today = 0
    /\ local_today \in LocalDays
    /\ inputs \in Contexts
    /\ generation = NoGeneration
    /\ run = NoRun

NextZones ==
    \/ StyleMe
    \/ Vote("a")
    \/ Vote("b")
    \/ DealAgain
    \/ RunItBack
    \/ AddItem
    \/ QuickLogToday
    \/ SaveSettings

\* The outfit battle on a machine whose local day need not be the UTC day
SpecZones == InitZones /\ [][NextZones]_vars

NextGarments ==
    \/ AddIdentified
    \/ AddManual
    \/ EditAdded
    \/ EditInCloset
    \/ DeleteItem

\* The catalogue with the validated fields of its garments
SpecGarments == Init /\ [][NextGarments]_vars

NextManifest ==
    \/ BuildManifest
    \/ ChangeInputs

\* The manifest builder over lists of garments
SpecManifest == Init /\ [][NextManifest]_vars

NextCloset ==
    \/ AddItem
    \/ ArchiveItem
    \/ DeleteItem
    \/ QuickLog
    \/ ClearAllData

\* The catalogue and wear log pages, with wear logged for past days
SpecCloset == Init /\ [][NextCloset]_vars

----------------------------------------------------------------------------
(* Properties *)

\* a vote for side w is cast in this step
VoteCast(w) ==
    /\ "battle_voted" \notin DOMAIN session_state
    /\ "battle_voted" \in DOMAIN session_state'
    /\ session_state'["battle_voted"] = w

Last(rows) == rows[Len(rows)]

\* C1: each vote for "a" or "b" appends exactly one battle row; its two id lists and
\* names are those of the first and second candidate shown, its winner the side voted
C1_VoteAppendsBattle ==
    [][\A w \in {"a", "b"} :
          VoteCast(w) =>
              LET shown == session_state["generated_outfits"]
              IN  /\ Len(battles') = Len(battles) + 1
                  /\ SubSeq(battles', 1, Len(battles)) = battles
                  /\ Last(battles').outfit_a_ids = shown[1].item_ids
                  /\ Last(battles').outfit_b_ids = shown[2].item_ids
                  /\ Last(battles').outfit_a_name = shown[1].name
                  /\ Last(battles').outfit_b_name = shown[2].name
                  /\ Last(battles').winner = w]_vars

\* a vote for "b" is on record, between candidates of different garments and names
C1_Witness ==
    /\ "battle_voted" \in DOMAIN session_state
    /\ session_state["battle_voted"] = "b"
    /\ battles # <<>>
    /\ Last(battles).winner = "b"
    /\ Last(battles).outfit_a_ids = session_state["generated_outfits"][1].item_ids
    /\ Last(battles).outfit_a_ids # Last(battles).outfit_b_ids
    /\ Last(battles).outfit_a_name # Last(battles).outfit_b_name

\* C2: on a vote, the garments the winner's ids resolve to each have exactly one wear
\* row dated today afterwards, and every other (garment, date) pair, those of garments
\* only in the losing outfit included, has the rows it had before
C2_VoteLogsWinnerOnly ==
    [][\A w \in {"a", "b"} :
          VoteCast(w) =>
              LET shown == session_state["generated_outfits"]
                  winning == IF w = "a" THEN shown[1] ELSE shown[2]
                  resolved == SeqToSet(winning.item_ids) \cap DOMAIN wardrobe_items
                  rows == BagToSet(wear_log) \cup BagToSet(wear_log')
                          \cup {[item_id |-> g, date_worn |-> local_today] : g \in ItemIds}
              IN  \A r \in rows :
                     CopiesIn(r, wear_log') =
                         IF r.item_id \in resolved /\ r.date_worn = local_today
                         THEN 1
                         ELSE CopiesIn(r, wear_log)]_vars

\* side "a" has won; its garments are logged for today, and a garment that exists and
\* is only in the losing outfit has no row for today
C2_Witness ==
    /\ Display = "voted"
    /\ session_state["battle_voted"] = "a"
    /\ LET shown == session_state["generated_outfits"]
           won == SeqToSet(shown[1].item_ids)
           lost == SeqToSet(shown[2].item_ids) \ won
       IN  /\ won \subseteq DOMAIN wardrobe_items
           /\ \A g \in won : BagIn([item_id |-> g, date_worn |-> local_today], wear_log)
           /\ \E g \in lost \cap DOMAIN wardrobe_items :
                 ~BagIn([item_id |-> g, date_worn |-> local_today], wear_log)

\* C3: the vote buttons are shown, or a vote stands, only while the latest STYLE ME
\* click returned at least two candidates with no error result in front; after a click
\* that raised, failed to parse, returned fewer than two or found nothing eligible
\* there is nothing to vote on and no vote
C3_VotableOnlyAfterPair ==
    (Display \in {"battle", "voted"} \/ "battle_voted" \in DOMAIN session_state)
        => generation.result = "ok"

\* after a battle was recorded, a click got a lone candidate back
C3_Witness ==
    /\ battles # <<>>
    /\ generation.result = "too_few"
    /\ "generated_outfits" \in DOMAIN session_state
    /\ Len(session_state["generated_outfits"]) = 1
    /\ Display = "too_few"

\* the candidates on display are dropped by a handler other than STYLE ME
DealStep ==
    /\ Display = "battle"
    /\ "generated_outfits" \notin DOMAIN session_state'
    /\ run'.handler # "style_me"

\* C4: "deal me again" drops both candidates and leaves battles, wear log and saved
\* outfits as they were
C4_DealAgainWritesNothing ==
    [][(DealAgain \/ DealStep) =>
          /\ "generated_outfits" \notin DOMAIN session_state'
          /\ "battle_voted" \notin DOMAIN session_state'
          /\ UNCHANGED <<battles, wear_log, outfits>>]_vars

\* a pair was generated and is gone, with no battle and no wear on record
C4_Witness ==
    /\ generation.result = "ok"
    /\ PageRenders
    /\ "generated_outfits" \notin DOMAIN session_state
    /\ battles = <<>>
    /\ wear_log = EmptyBag
    /\ outfits = <<>>

\* C5: a row is added to outfits only by the save button, only in the voted state; each
\* save appends exactly one row holding the winning candidate and leaves battles and
\* wear log unchanged
C5_SaveAppendsWinner ==
    [][(SaveWinner \/ Len(outfits') > Len(outfits)) =>
          /\ Display = "voted"
          /\ LET shown == session_state["generated_outfits"]
                 winning == IF session_state["battle_voted"] = "a"
                            THEN shown[1] ELSE shown[2]
             IN  /\ Len(outfits') = Len(outfits) + 1
                 /\ SubSeq(outfits', 1, Len(outfits)) = outfits
                 /\ Last(outfits').name = winning.name
                 /\ Last(outfits').item_ids = winning.item_ids
                 /\ Last(outfits').reasoning = winning.reasoning
          /\ UNCHANGED <<battles, wear_log>>]_vars

\* the same winner (side "b") was saved twice: two equal rows
C5_Witness ==
    /\ Display = "voted"
    /\ session_state["battle_voted"] = "b"
    /\ Len(outfits) = 2
    /\ outfits[1] = outfits[2]
    /\ outfits[2].item_ids = session_state["generated_outfits"][2].item_ids

\* C6: the occasion and weather summary of a new battle row, and of a new saved outfit,
\* are those the generation request was made with, whatever the inputs are by then
C6_ContextOfGeneration ==
    [][/\ \A w \in {"a", "b"} :
             VoteCast(w) =>
                 /\ Last(battles').occasion = generation.occasion
                 /\ Last(battles').weather_summary = generation.weather_summary
       /\ Len(outfits') > Len(outfits) =>
             /\ Last(outfits').occasion = generation.occasion
             /\ Last(outfits').weather_summary = generation.weather_summary]_vars

\* battle and saved outfit carry the generation's context while the inputs differ
C6_Witness ==
    /\ Display = "voted"
    /\ battles # <<>>
    /\ outfits # <<>>
    /\ Last(battles).occasion = generation.occasion
    /\ Last(battles).occasion # inputs.occasion
    /\ Last(outfits).weather_summary = generation.weather_summary
    /\ Last(outfits).weather_summary # inputs.weather_summary

\* windows and exclusion sets the filter is asked about
WindowsAsked == 0..(MaxDay + 1)
ExclusionsAsked == SUBSET ItemIds

\* C7: get_available_items(W, E) returns each active garment with no wear row dated on
\* or after (the store's current date - W) and with id not in E, once, and nothing else
C7_AvailableExactly ==
    \A W \in WindowsAsked, E \in ExclusionsAsked :
        LET result == get_available_items(W, E)
        IN  /\ ListIds(result) =
                   {g \in DOMAIN wardrobe_items :
                       /\ wardrobe_items[g].active = 1
                       /\ g \notin E
                       /\ \A r \in BagToSet(wear_log) :
                             r.item_id = g => r.date_worn < utc_today - W}
            /\ \A k \in DOMAIN result : result[k] = wardrobe_items[result[k].id]
            /\ Cardinality(ListIds(result)) = Len(result)

\* a garment last worn exactly one day ago (in for W = 0, out for W = 1), beside an
\* archived garment that was never worn
C7_Witness ==
    \E g \in DOMAIN wardrobe_items, h \in DOMAIN wardrobe_items :
        /\ wardrobe_items[g].active = 1
        /\ BagIn([item_id |-> g, date_worn |-> utc_today - 1], wear_log)
        /\ ~BagIn([item_id |-> g, date_worn |-> utc_today], wear_log)
        /\ g \in ListIds(get_available_items(0, {}))
        /\ g \notin ListIds(get_available_items(1, {}))
        /\ wardrobe_items[h].active = 0
        /\ \A r \in BagToSet(wear_log) : r.item_id # h
        /\ h \notin ListIds(get_available_items(0, {}))

\* C8: whatever the user locks and excludes, every locked garment that exists is in the
\* eligible list the manifest is built from
C8_LockOverrides ==
    \A locked_ids \in LockSelections, excluded_ids \in ExcludeSelections :
        \A g \in SeqToSet(locked_ids) :
            g \in DOMAIN wardrobe_items
                => g \in ListIds(eligible_items(locked_ids, excluded_ids))

\* a STYLE ME click whose eligible list holds a garment worn within the window
C8_Witness ==
    /\ run.handler = "style_me"
    /\ \E g \in run.eligible_ids :
          /\ g \in get_items_worn_recently(no_repeat_days)
          /\ g \notin ListIds(get_available_items(no_repeat_days, {}))

\* C9: with store and exclusions fixed, a longer window never makes more eligible
C9_WindowMonotone ==
    \A E \in ExclusionsAsked :
        LET eligible == {<<W, ListIds(get_available_items(W, E))>> : W \in WindowsAsked}
        IN  \A under1 \in eligible, under2 \in eligible :
               under1[1] < under2[1] => under2[2] \subseteq under1[2]

\* lengthening the window drops one garment and keeps another
C9_Witness ==
    \E W1 \in WindowsAsked, W2 \in WindowsAsked :
        /\ W1 < W2
        /\ ListIds(get_available_items(W2, {})) # {}
        /\ ListIds(get_available_items(W2, {})) # ListIds(get_available_items(W1, {}))

\* C10: a STYLE ME click that finds nothing eligible calls no service, stores no
\* candidates and shows the no-items warning
C10_EmptyEligibleNoCall ==
    (run.handler = "style_me" /\ run.eligible_ids = {}) =>
        /\ run.api_calls = 0
        /\ run.message = "no_items"
        /\ generation.result = "no_items"
        /\ "generated_outfits" \notin DOMAIN session_state

\* such a click, made after an earlier generation and with a closet that renders
C10_Witness ==
    /\ run.handler = "style_me"
    /\ run.eligible_ids = {}
    /\ PageRenders
    /\ "outfit_occasion" \in DOMAIN session_state

C12_OneWearPerDay ==
    /\ \A r \in BagToSet(wear_log) : CopiesIn(r, wear_log) = 1
    /\ \A g \in ItemIds, d \in Days :
          LET row == [item_id |-> g, date_worn |-> d]
          IN  /\ BagIn(row, wear_log) =>
                    /\ ~log_wear_ok(wear_log, g, d)
                    /\ log_wear(wear_log, g, d) = wear_log
              /\ (g \in DOMAIN wardrobe_items /\ ~BagIn(row, wear_log)) =>
                    /\ log_wear_ok(wear_log, g, d)
                    /\ log_wear(wear_log, g, d) = wear_log (+) SetToBag({row})

\* one garment logged on two different days
C12_Witness ==
    \E g \in DOMAIN wardrobe_items, d1 \in Days, d2 \in Days :
        /\ d1 # d2
        /\ CopiesIn([item_id |-> g, date_worn |-> d1], wear_log) = 1
        /\ CopiesIn([item_id |-> g, date_worn |-> d2], wear_log) = 1

\* C13: no script run calls the service more than once, and only the STYLE ME handler
\* calls it at all; Try Again, deal-me-again and run-it-back call nothing, write nothing
\* to the store and only drop keys from the session state
C13_OneCallPerClick ==
    [][/\ run'.api_calls <= 1
       /\ run'.api_calls > 0 => run'.handler = "style_me"
       /\ (TryAgain \/ DealAgain \/ RunItBack) =>
             /\ run'.api_calls = 0
             /\ UNCHANGED <<store, generation>>
             /\ DOMAIN session_state' \subseteq DOMAIN session_state
             /\ \A key \in DOMAIN session_state' :
                   session_state'[key] = session_state[key]]_vars

\* a click whose one call came back unparsable
C13_Witness ==
    /\ run.handler = "style_me"
    /\ run.api_calls = 1
    /\ generation.result = "parse_error"
    /\ Display = "parse_error"

\* C14: a STYLE ME click, whether it gives a pair, fails to parse, gives too few
\* candidates, raises or finds nothing eligible, leaves battles, wear log and saved
\* outfits as they were; on the Style Me page those tables change only in a vote
\* (battles and wear log) or in a save from the winner display (outfits)
C14_GenerationWritesNothing ==
    [][/\ run'.handler = "style_me" => UNCHANGED <<battles, wear_log, outfits>>
       /\ <<battles, wear_log>>' # <<battles, wear_log>> =>
             VoteCast("a") \/ VoteCast("b")
       /\ outfits' # outfits => (Display = "voted" /\ SaveWinner)]_vars

\* a click that raised, with a battle, a wear row and a saved outfit already in the store
C14_Witness ==
    /\ run.handler = "style_me"
    /\ run.message = "exception"
    /\ battles # <<>>
    /\ wear_log # EmptyBag
    /\ outfits # <<>>

\* C15: a battle row is in the store only for a round that reached the voted state:
\* every step that adds a battle row ends with battle_voted set
C15_BattleOnlyWhenVoted ==
    [][Len(battles') > Len(battles) => "battle_voted" \in DOMAIN session_state']_vars

\* C16: every garment id of a battle row, on either side, was in the manifest of the
\* generation request whose candidates were voted on; stated for a vote cast right
\* after the STYLE ME click, whose eligible list is still in the run's locals
C16_BattleIdsFromManifest ==
    [][(run.handler = "style_me" /\ (VoteCast("a") \/ VoteCast("b"))) =>
          (SeqToSet(Last(battles').outfit_a_ids) \cup SeqToSet(Last(battles').outfit_b_ids))
              \subseteq run.eligible_ids]_vars

\* the latest script run was a STYLE ME click whose service call returned a reply
Replied == run.handler = "style_me" /\ run.api_calls > 0 /\ run.message = "none"

\* C17: when the reply, after fence stripping, is not valid JSON, the generation does
\* not raise: the stored result is a list of one element, holding the error marker and
\* the text that failed to parse, and the page shows the parse-failure display with its
\* Try Again button
C17_ParseFailureResult ==
    (Replied /\ ~json_valid(strip_fence(run.reply))) =>
        /\ "generated_outfits" \in DOMAIN session_state
        /\ LET outfits_list == session_state["generated_outfits"]
           IN  /\ Len(outfits_list) = 1
               /\ DOMAIN outfits_list[1] = {"error", "raw_response"}
               /\ outfits_list[1].error = "Failed to parse AI response"
               /\ outfits_list[1].raw_response = strip_fence(run.reply)
        /\ Display = "parse_error"
        /\ ENABLED TryAgain

\* a fenced reply whose block is not JSON
C17_Witness ==
    /\ Replied
    /\ run.reply = <<FenceLine, ProseLine, FenceLine>>
    /\ session_state["generated_outfits"][1].raw_response = <<ProseLine>>
    /\ Display = "parse_error"

\* the lines of a reply between its first line and its last
Inner(reply) == SubSeq(reply, 2, Len(reply) - 1)

\* a reply that is a valid two-element JSON array between two fence lines
FencedPair(reply) ==
    /\ Len(reply) >= 3
    /\ reply[1] = FenceLine
    /\ reply[Len(reply)] = FenceLine
    /\ json_valid(Inner(reply))
    /\ Inner(reply)[1].value.type = "array"
    /\ Len(Inner(reply)[1].value.items) = 2

\* C18: a valid two-element JSON array wrapped in fence lines gives the candidate list
\* that the same text gives unfenced: the two elements of the array, in order
C18_FencedParsesSame ==
    (Replied /\ FencedPair(run.reply)) =>
        /\ session_state["generated_outfits"] = generate_outfits(Inner(run.reply))
        /\ session_state["generated_outfits"] = Inner(run.reply)[1].value.items
        /\ Display = "battle"

\* a fenced pair written on two lines
C18_Witness ==
    /\ Replied
    /\ run.reply = <<FenceLine, JsonHead(Pair), JsonTail(Pair), FenceLine>>
    /\ session_state["generated_outfits"] = <<LookA, LookB>>

\* candidates asked about: every list of up to MaxItems ids, one of them an id no
\* garment ever had, and a candidate with no item_ids key
IdListsAsked == UNION {[1..n -> 1..(MaxItems + 1)] : n \in 0..MaxItems}
OutfitsAsked == {[name |-> "Look", item_ids |-> ids] : ids \in IdListsAsked}
                    \cup {[name |-> "Look"]}

\* C19: resolve_outfit_items gives, in the order of the candidate's item_ids, the row of
\* each id that has a garment in the store now (archived or not, repeated if the id is
\* repeated) and nothing for the others
C19_ResolveExisting ==
    \A outfit \in OutfitsAsked :
        LET ids == IF "item_ids" \in DOMAIN outfit THEN outfit.item_ids ELSE <<>>
            found == SelectSeq(ids, LAMBDA id : id \in DOMAIN wardrobe_items)
            items == resolve_outfit_items(outfit)
        IN  /\ Len(items) = Len(found)
            /\ \A k \in 1..Len(found) : items[k] = wardrobe_items[found[k]]

\* the candidates on display name garment 1, deleted since the generation: the first
\* resolves to nothing, the second to garment 2 alone
C19_Witness ==
    /\ Display = "battle"
    /\ session_state["generated_outfits"][1].item_ids = <<1>>
    /\ session_state["generated_outfits"][2].item_ids = <<2, 1>>
    /\ 1 \notin DOMAIN wardrobe_items
    /\ 2 \in DOMAIN wardrobe_items
    /\ resolve_outfit_items(session_state["generated_outfits"][1]) = <<>>
    /\ resolve_outfit_items(session_state["generated_outfits"][2]) = <<wardrobe_items[2]>>

RECURSIVE SumCounts(_)
SumCounts(counts) ==
    IF DOMAIN counts = {} THEN 0
    ELSE LET iid == CHOOSE key \in DOMAIN counts : TRUE
         IN  counts[iid] + SumCounts(Pop(counts, iid))

\* ids on the winning side, and on the losing side, of a battle row
WinnerIds(b) == IF b.winner = "a" THEN b.outfit_a_ids ELSE b.outfit_b_ids
LoserIds(b) == IF b.winner = "a" THEN b.outfit_b_ids ELSE b.outfit_a_ids

\* the sizes of the winning sides (or of the losing sides) of rows[lo..hi], added up
RECURSIVE SumSizes(_, _, _, _)
SumSizes(rows, lo, hi, winning) ==
    IF lo > hi THEN 0
    ELSE IF lo = hi
         THEN (IF winning THEN Len(WinnerIds(rows[lo])) ELSE Len(LoserIds(rows[lo])))
    ELSE LET mid == (lo + hi) \div 2
         IN  SumSizes(rows, lo, mid, winning) + SumSizes(rows, mid + 1, hi, winning)

\* C20: the win counts shown add up to the sizes of the winning sides of all battles
\* in the store, and the loss counts to the sizes of the losing sides
C20_StatsSums ==
    run.handler = "stats" =>
        /\ SumCounts(run.stats.wins) = SumSizes(battles, 1, Len(battles), TRUE)
        /\ SumCounts(run.stats.losses) = SumSizes(battles, 1, Len(battles), FALSE)

\* ids named in the battle rows, and the battles a garment won and lost
BattleIds == UNION {SeqToSet(battles[k].outfit_a_ids) \cup SeqToSet(battles[k].outfit_b_ids) :
                        k \in DOMAIN battles}
BattlesWon(g) == Cardinality({k \in DOMAIN battles : g \in SeqToSet(WinnerIds(battles[k]))})
BattlesLost(g) == Cardinality({k \in DOMAIN battles : g \in SeqToSet(LoserIds(battles[k]))})

\* C21: wins has an entry exactly for the garments on the winning side of some battle,
\* holding the number of those battles, and losses likewise for the losing side; so no
\* entry is zero
C21_CountsPerGarment ==
    run.handler = "stats" =>
        /\ DOMAIN run.stats.wins = {g \in BattleIds : BattlesWon(g) > 0}
        /\ DOMAIN run.stats.losses = {g \in BattleIds : BattlesLost(g) > 0}
        /\ \A g \in DOMAIN run.stats.wins : run.stats.wins[g] = BattlesWon(g)
        /\ \A g \in DOMAIN run.stats.losses : run.stats.losses[g] = BattlesLost(g)

\* C22 as stated: for the example history the wins are {1: 2, 2: 1, 3: 1} and the losses
\* {3: 1, 5: 1, 6: 1}
C22_ExampleAsStated ==
    (run.handler = "stats" /\ battles = ExampleHistory) =>
        /\ run.stats.wins = (1 :> 2) @@ (2 :> 1) @@ (3 :> 1)
        /\ run.stats.losses = (3 :> 1) @@ (5 :> 1) @@ (6 :> 1)

\* C22: for the example history the wins are {1: 2, 2: 1, 3: 1} and the losses
\* {3: 1, 4: 1, 5: 1, 6: 1}: garment 4, on the losing side of the first battle, has a
\* loss too
C22_Example ==
    (run.handler = "stats" /\ battles = ExampleHistory) =>
        /\ run.stats.wins = (1 :> 2) @@ (2 :> 1) @@ (3 :> 1)
        /\ run.stats.losses = (3 :> 1) @@ (4 :> 1) @@ (5 :> 1) @@ (6 :> 1)

\* the statistics were computed for the example history
C22_Witness ==
    /\ run.handler = "stats"
    /\ battles = ExampleHistory
    /\ run.stats.wins[1] = 2

\* C23: the statistics are those of the loop run over every battle row in the store
C23_AllBattlesFolded ==
    run.handler = "stats" =>
        LET rows == get_battle_history(Len(battles))
        IN  /\ Len(rows) = Len(battles)
            /\ run.stats = stats_fold(rows, 1, Len(rows), [wins |-> <<>>, losses |-> <<>>])

\* the place of a key in a list of keys
Pos(keys, g) == CHOOSE i \in DOMAIN keys : keys[i] = g

\* C24: the garment shown as most-winning has the largest win count, the one shown as
\* losing streak the largest (losses - wins) among the garments with a loss; of several
\* garments with that largest value the one shown is the one whose entry came first in
\* the mapping, so the battle rows fix the choice
C24_MaxChoice ==
    run.handler = "stats" =>
        LET wins == run.stats.wins
            losses == run.stats.losses
            diff(g) == losses[g] - (IF g \in DOMAIN wins THEN wins[g] ELSE 0)
        IN  /\ DOMAIN wins # {} =>
                  /\ run.mvp_id \in DOMAIN wins
                  /\ \A g \in DOMAIN wins :
                        /\ wins[g] <= wins[run.mvp_id]
                        /\ wins[g] = wins[run.mvp_id] =>
                              Pos(stats_keys(TRUE), run.mvp_id) <= Pos(stats_keys(TRUE), g)
            /\ DOMAIN losses # {} =>
                  /\ run.streak_id \in DOMAIN losses
                  /\ losses[run.streak_id] >= 1
                  /\ \A g \in DOMAIN losses :
                        /\ diff(g) <= diff(run.streak_id)
                        /\ diff(g) = diff(run.streak_id) =>
                              Pos(stats_keys(FALSE), run.streak_id)
                                  <= Pos(stats_keys(FALSE), g)

\* the example history: garments 5, 6 and 4 have one loss and no win, garment 3 one of
\* each; 5 is shown, and garment 1 with its two wins
C24_Witness ==
    /\ run.handler = "stats"
    /\ battles = ExampleHistory
    /\ run.mvp_id = 1
    /\ run.streak_id = 5
    /\ run.stats.losses[6] = run.stats.losses[5]
    /\ 6 \notin DOMAIN run.stats.wins

\* C25: a garment chosen for a column that has no row in the catalogue any more is
\* shown by the caption "Item no longer in closet", any other by its name and counts;
\* deleting a garment changes neither the battle rows nor the rows the counts are
\* taken from
C25_DeletedGarmentInStats ==
    [][/\ DeleteItem =>
             /\ battles' = battles
             /\ get_battle_history(HistoryLimit)' = get_battle_history(HistoryLimit)
       /\ run'.handler = "stats" =>
             /\ DOMAIN run'.stats.wins # {} =>
                   run'.mvp_shown = IF run'.mvp_id \in DOMAIN wardrobe_items'
                                    THEN "item" ELSE "Item no longer in closet"
             /\ DOMAIN run'.stats.losses # {} =>
                   run'.streak_shown = IF run'.streak_id \in DOMAIN wardrobe_items'
                                       THEN "item" ELSE "Item no longer in closet"]_vars

\* garment 1 won its battles, was deleted, and is reported as no longer in the closet
C25_Witness ==
    /\ run.handler = "stats"
    /\ run.mvp_id = 1
    /\ run.stats.wins[1] >= 1
    /\ last_item_id >= 1
    /\ 1 \notin DOMAIN wardrobe_items
    /\ run.mvp_shown = "Item no longer in closet"

\* text has the pieces of part next to each other, in order
Contains(text, part) ==
    \E i \in 0..(Len(text) - Len(part)) : SubSeq(text, i + 1, i + Len(part)) = part

\* C26: the manifest of the empty list is the empty text; the manifest of any other list
\* has as many lines as the list has garments, and the k-th line contains "ID:" followed
\* by the id of the k-th garment, optional fields missing or not
C26_ManifestLines ==
    run.handler = "manifest" =>
        /\ run.items = <<>> => run.manifest = <<>>
        /\ run.items # <<>> =>
              LET lines == Split(run.manifest, NL)
              IN  /\ Len(lines) = Len(run.items)
                  /\ \A k \in DOMAIN run.items :
                        Contains(lines[k], <<"ID:", ToString(run.items[k].id)>>)

\* C27: every garment of the store has formality in 1..5, at least one season, a category
\* of VALID_CATEGORIES and a pattern of VALID_PATTERNS, after any sequence of identified
\* adds, manual adds and edits in the add-items and closet forms
C27_GarmentInvariant ==
    \A item_id \in DOMAIN wardrobe_items :
        /\ wardrobe_items[item_id].formality \in 1..5
        /\ wardrobe_items[item_id].seasons # <<>>
        /\ wardrobe_items[item_id].category \in VALID_CATEGORIES
        /\ wardrobe_items[item_id].pattern \in VALID_PATTERNS

\* C28: every row of wear_log refers to a garment of wardrobe_items; log_wear for an id
\* that is not in wardrobe_items returns False and leaves the table as it is; delete_item
\* removes the garment and every wear_log row of it, and no other row
C28_WearRefersToGarment ==
    /\ \A r \in BagToSet(wear_log) : r.item_id \in DOMAIN wardrobe_items
    /\ \A g \in ItemIds \ DOMAIN wardrobe_items, d \in Days :
          /\ ~log_wear_ok(wear_log, g, d)
          /\ log_wear(wear_log, g, d) = wear_log
    /\ \A g \in DOMAIN wardrobe_items :
          LET kept == delete_item_wear(wear_log, g)
          IN  /\ g \notin DOMAIN delete_item_rows(wardrobe_items, g)
              /\ \A r \in BagToSet(wear_log) :
                    CopiesIn(r, kept) = IF r.item_id = g THEN 0 ELSE CopiesIn(r, wear_log)

\* a garment of the winning outfit was deleted: the battle still names it, the wear log
\* holds rows of the garments that are left and none of it
C28_Witness ==
    /\ wear_log # EmptyBag
    /\ \E g \in (1..last_item_id) \ DOMAIN wardrobe_items :
          /\ \E k \in DOMAIN battles : g \in SeqToSet(WinnerIds(battles[k]))
          /\ \A r \in BagToSet(wear_log) : r.item_id # g

\* a generated pair is waiting for its vote: the session holds two or more candidates
\* and no battle_voted
PairPending ==
    /\ "generated_outfits" \in DOMAIN session_state
    /\ result_of(session_state["generated_outfits"]) = "ok"
    /\ "battle_voted" \notin DOMAIN session_state

\* C29: each generated pair gives at most one battle row, so the battle rows written are
\* as many as the votes cast and at most as many as the generations that returned two or
\* more candidates: a step adds battle rows exactly when it casts a vote, it adds one row,
\* it starts with a pair waiting for its vote and ends with none waiting; and a pair comes
\* to wait for its vote only by a STYLE ME click that returned two or more candidates
C29_OneBattlePerPair ==
    [][/\ Len(battles') > Len(battles) <=> (VoteCast("a") \/ VoteCast("b"))
       /\ Len(battles') > Len(battles) =>
             /\ Len(battles') = Len(battles) + 1
             /\ PairPending
             /\ ~PairPending'
       /\ (~PairPending /\ PairPending') =>
             /\ run'.handler = "style_me"
             /\ generation'.result = "ok"]_vars

\* the garments with a wear row dated today (date.today(), the date a vote logs)
WornToday == {r.item_id : r \in {x \in BagToSet(wear_log) : x.date_worn = local_today}}

\* C30: a garment with a wear row for today is in no eligible list asked for later the
\* same day, for every window W >= 0 and every exclusion set, unless it is locked: the
\* filter leaves it out, and the STYLE ME handler's list holds it only when locked
C30_WornTodayNotEligible ==
    \A g \in WornToday :
        /\ \A W \in WindowsAsked, E \in ExclusionsAsked :
              g \notin ListIds(get_available_items(W, E))
        /\ \A locked_ids \in LockSelections, excluded_ids \in ExcludeSelections :
              g \in ListIds(eligible_items(locked_ids, excluded_ids))
                  => g \in SeqToSet(locked_ids)

====
